---- MODULE Spec2Model ----
(***************************************************************************)
(* Model of the project-ideas API: the routes of routes/projects_routes.py,*)
(* the services of services/project_services.py and                       *)
(* services/openai_services.py, the projection of helpers/db_helper.py and *)
(* the exception handlers registered in main.py.                           *)
(*                                                                         *)
(* The MongoDB collection is a sequence of documents in natural           *)
(* (insertion) order.  Every request is a coroutine that suspends at each  *)
(* awaited store call: one action is one store call together with the     *)
(* code that runs up to the next awaited call.                             *)
(***************************************************************************)
EXTENDS Integers, Sequences, FiniteSets, TLC

\* ------------------------------------------------------------------ bounds
\* number of documents the collection holds before the first request
MaxSeed == 2
\* no further enhance request is accepted once the driver has handed out
\* MaxId identifiers (seeded documents included)
MaxId == 3
\* number of documents the collection holds before two overlapping requests
MaxConcSeed == 1

\* ------------------------------------------------------- optional values
\* Python None / a missing dictionary key is the empty tuple, a present
\* value v is the one-element tuple <<v>>.
None == <<>>

Some(v) == <<v>>

IsNone(o) == o = <<>>

\* JSON null / Python None held as the value of a key that is present: equal
\* to no list (a list is a tuple, and this function is none)
JsonNull == [i \in {0} |-> 0]

Range(s) == {s[i] : i \in 1..Len(s)}

\* ------------------------------------------------------------ enumerations
ProjectType == {"frontend", "backend", "fullstack"}

DifficultyLevel == {"beginner", "intermediate", "advanced"}

Titles == {"Portfolio Website", "Todo App"}

\* titles the callers ask for ("Todo App" only ever sits in the store)
ReqTitles == {"Portfolio Website"}

\* X-API-Key header values: missing, different from API_KEY, equal to API_KEY
ApiKeys == {"none", "wrong", "valid"}

\* --------------------------------------------------------------- identifiers
\* An identifier string is either the 24-hex-character form of ObjectId n
\* (hex = n, words empty) or some other text, kept as its words.
HexString(n) == [hex |-> n, words |-> <<>>]

TextString(w) == [hex |-> 0, words |-> w]

\* str(ObjectId): src/src/helpers/db_helper.py:13
ObjectIdToStr(n) == HexString(n)

\* ObjectId.is_valid: a 24-character hex string
ObjectIdIsValid(s) == s.words = <<>> /\ s.hex > 0

\* ObjectId(s) for a valid s
StrToObjectId(s) == s.hex

\* the words of an identifier string, as an f-string prints it
IdWords(s) == IF s.words = <<>> THEN <<ToString(s.hex)>> ELSE s.words

\* s contains t as a contiguous run of words (Python's `t in s`)
Contains(s, t) ==
    \E i \in 0..(Len(s) - Len(t)) : \A j \in 1..Len(t) : s[i + j] = t[j]

\* str(e) of the bson.errors.InvalidId that ObjectId(s) raises
InvalidIdText(s) ==
    <<"'">> \o s.words \o <<"'", "is", "not", "a", "valid", "ObjectId,",
      "it", "must", "be", "a", "12-byte", "input", "or", "a",
      "24-character", "hex", "string">>

\* ------------------------------------------------------------- status codes
\* HTTPStatusCodes, src/src/core/enums.py
OK == 200

BAD_REQUEST == 400

UNAUTHORIZED == 401

FORBIDDEN == 403

NOT_FOUND == 404

INTERNAL_SERVER_ERROR == 500

\* ---------------------------------------------------------------- documents
\* tech stacks of the documents present before the first request
SeedStacks == {<<"React">>}

\* A stored document.  features, new_features, justification,
\* original_project_id and the timestamps are optional keys.
SeedDoc(id, title, ptype, diff, stack) ==
    [_id |-> id, title |-> title, description |-> "seed description",
     project_type |-> ptype, difficulty |-> diff, tech_stack |-> stack,
     features |-> None, new_features |-> None, justification |-> None,
     original_project_id |-> None,
     created_at |-> Some(0), updated_at |-> Some(0)]

\* project types of the documents present before the first request
SeedTypes == {"frontend", "backend"}

\* the documents a collection may hold before the first request, ids apart:
\* "Portfolio Website" in either type at any tier, "Todo App" as a frontend
\* project at the two lower tiers
SeedShapes ==
    {SeedDoc(0, "Portfolio Website", p, d, s) :
        p \in SeedTypes, d \in DifficultyLevel, s \in SeedStacks}
    \cup {SeedDoc(0, "Todo App", "frontend", d, s) :
        d \in {"beginner", "intermediate"}, s \in SeedStacks}
    \cup {SeedDoc(0, "Portfolio Website", "frontend", "beginner", <<>>)}

\* the collections the service may be started on: up to MaxSeed documents
\* with the identifiers 1, 2, ... in natural order
SeedStores ==
    UNION {{[i \in 1..n |-> [f[i] EXCEPT !._id = i]] : f \in [1..n -> SeedShapes]}
           : n \in 0..MaxSeed}

\* datetime.isoformat()
IsoFormat(t) == [iso |-> t]

\* project.get(key, default) for an optional key
GetOr(o, default) == IF IsNone(o) THEN default ELSE o[1]

\* project_helper of a document (the caller handles the None input)
project_helper(project) ==
    [_id |-> ObjectIdToStr(project._id),
     title |-> project.title,
     description |-> project.description,
     project_type |-> project.project_type,
     difficulty |-> project.difficulty,
     tech_stack |-> project.tech_stack,
     features |-> GetOr(project.features, <<>>),
     new_features |-> GetOr(project.new_features, <<>>),
     justification |-> GetOr(project.justification, {}),
     created_at |-> IF IsNone(project.created_at) THEN None
                    ELSE Some(IsoFormat(project.created_at[1])),
     updated_at |-> IF IsNone(project.updated_at) THEN None
                    ELSE Some(IsoFormat(project.updated_at[1]))]

\* project_helper of the result of find_one: None stays None
ProjectHelperOpt(o) == IF IsNone(o) THEN None ELSE Some(project_helper(o[1]))

\* ------------------------------------------------------------------ queries
\* indices of the documents of coll that satisfy the filter, in natural order
Matching(coll, Filter(_)) == {i \in 1..Len(coll) : Filter(coll[i])}

Min(S) == CHOOSE x \in S : \A y \in S : x <= y

\* collection.find_one(filter): the first match in natural order, or None
FindOne(coll, Filter(_)) ==
    IF Matching(coll, Filter) = {} THEN None
    ELSE Some(coll[Min(Matching(coll, Filter))])

\* mutant: the filter of project_exists, {"title": title}, used in its place
TitleOnlyFilter(d, title, difficulty) == d.title = title

\* {"title": title, "difficulty": difficulty}
TitleDifficultyFilter(d, title, difficulty) ==
    d.title = title /\ d.difficulty = difficulty

\* find_project_by_title_and_difficulty
find_project_by_title_and_difficulty(coll, title, difficulty) ==
    LET F(d) == TitleDifficultyFilter(d, title, difficulty)
    IN  ProjectHelperOpt(FindOne(coll, F))

\* mutant: the re-check without the tech_stack condition
EnhancedFilterAnyStack(d, project_data, target) ==
    /\ d.title = project_data.title
    /\ d.project_type = project_data.project_type
    /\ d.difficulty = target

\* the filter enhance_project_with_ai looks for an existing enhancement with:
\* same title and project_type, the target difficulty, and at least one
\* tech_stack entry among those of the basis ($elemMatch / $in)
EnhancedFilter(d, project_data, target) ==
    /\ d.title = project_data.title
    /\ d.project_type = project_data.project_type
    /\ d.difficulty = target
    /\ \E i \in 1..Len(d.tech_stack) :
           d.tech_stack[i] \in Range(project_data.tech_stack)

\* {"_id": oid}
IdFilter(d, oid) == d._id = oid

FindById(coll, oid) ==
    LET F(d) == IdFilter(d, oid) IN FindOne(coll, F)

\* mutant: delete_one with an empty filter removes the first document
DeleteOneFirst(coll, oid) == IF coll = <<>> THEN coll ELSE Tail(coll)

\* collection.delete_one({"_id": oid}): the collection without that document
DeleteOne(coll, oid) ==
    LET Keep(d) == d._id # oid IN SelectSeq(coll, Keep)

\* mutant: the insert also stamps updated_at on the documents already there
InsertOneTouching(coll, doc, oid) ==
    Append([i \in 1..Len(coll) |-> [coll[i] EXCEPT !.updated_at = Some(oid)]],
           [doc EXCEPT !._id = oid])

\* collection.insert_one(doc): appended with the fresh identifier oid
InsertOne(coll, doc, oid) == Append(coll, [doc EXCEPT !._id = oid])

\* --------------------------------------------------------------- exceptions
\* An exception in flight: its class, the HTTPException fields (status_code,
\* detail, error_code; 0 and empty for other classes) and str(e).
HttpExc(type, status, detail, code, resource) ==
    [type |-> type, status_code |-> status, detail |-> detail,
     error_code |-> code, resource_name |-> resource,
     text |-> <<ToString(status) \o ":">> \o detail]

PlainExc(type, text) ==
    [type |-> type, status_code |-> 0, detail |-> <<>>,
     error_code |-> "", resource_name |-> "", text |-> text]

\* ResourceNotFoundException(resource_name, message)
ResourceNotFoundException(resource_name, message) ==
    HttpExc("ResourceNotFoundException", NOT_FOUND,
            IF message = <<"Resource not found">>
            THEN <<resource_name, " not found">> ELSE message,
            "ResourceNotFound", resource_name)

\* InvalidIDException()
InvalidIDException ==
    HttpExc("InvalidIDException", BAD_REQUEST, <<"Invalid ID format">>,
            "InvalidID", "")

\* fastapi.HTTPException(status_code, detail), as get_api_key raises it
HTTPException(status, detail) ==
    HttpExc("HTTPException", status, detail, "", "")

\* ---------------------------------------------------------------- responses
\* create_success_response
create_success_response(data, message, status) ==
    [status_code |-> status, status |-> "Success", error |-> "",
     message |-> message, details |-> None, data |-> data]

\* create_error_response
create_error_response(error_code, message, details, status) ==
    [status_code |-> status, status |-> "Error", error |-> error_code,
     message |-> message, details |-> details, data |-> None]

\* The handler main.py registers for the class of exc: the typed handlers
\* for ResourceNotFoundException and InvalidIDException, http_exception_handler
\* for any other HTTPException, general_exception_handler for the rest.
HandleException(exc) ==
    IF exc.type \in {"ResourceNotFoundException", "InvalidIDException"}
    THEN create_error_response(exc.error_code, exc.detail, None, exc.status_code)
    ELSE IF exc.type = "HTTPException"
    THEN create_error_response("HTTP_ERROR", exc.detail, None, exc.status_code)
    ELSE create_error_response("SERVER_ERROR", <<"An unexpected error occurred">>,
                               Some(exc.text), INTERNAL_SERVER_ERROR)

\* ------------------------------------------------------------------ provider
\* What one chat-completion call can come to: the call raises, the content
\* is not JSON, the JSON is no object, one of the four keys is missing, or
\* the reply carries the four keys; json.loads does not look at the types of
\* the values, so new_features may be null instead of a list.
ReplyKeys == {"description", "tech_stack", "new_features", "justification"}

Reply(kind, keys, n) ==
    [kind |-> kind, keys |-> keys,
     description |-> IF n = 1 THEN "enhanced one"
                     ELSE IF n = 2 THEN "enhanced two" ELSE "enhanced three",
     tech_stack |-> IF n = 1 THEN <<"React", "Express">> ELSE <<"Vue">>,
     new_features |-> IF n = 1 THEN <<"auth">>
                      ELSE IF n = 2 THEN <<"search", "chat">> ELSE JsonNull,
     justification |-> IF n = 1
                       THEN {<<"tech_stack", "why one">>, <<"features", "how one">>}
                       ELSE {<<"tech_stack", "why two">>, <<"features", "how two">>}]

Replies ==
    {Reply("object", ReplyKeys, n) : n \in {1, 2, 3}}
    \cup {Reply("object", ReplyKeys \ {k}, 1) : k \in ReplyKeys}
    \cup {Reply(k, {}, 1) : k \in {"transport_error", "not_json", "not_object"}}

\* create_enhancement_prompt, called before the try block: the exception it
\* raises, if any.  For an intermediate basis and the advanced target it
\* iterates over the new_features of the basis projection.
create_enhancement_prompt(project_data, target) ==
    IF /\ target = "advanced"
       /\ project_data.difficulty = "intermediate"
       /\ project_data.new_features = JsonNull
    THEN Some(PlainExc("TypeError", <<"'NoneType' object is not iterable">>))
    ELSE None

\* mutant: the four fields read with .get(), so a missing key goes unnoticed
GenerationSucceedsUnchecked(reply) == reply.kind = "object"

\* mutant: the try block swallows every failure and goes on to insert_one
GenerationSucceedsAlways(reply) == TRUE

\* the try block reaches insert_one: the call returned, json.loads parsed
\* an object, and the four subscripts found their keys
GenerationSucceeds(reply) ==
    /\ reply.kind = "object"
    /\ ReplyKeys \subseteq reply.keys

\* mutant: the difficulty copied from the basis like title and project_type
EnhancedDocumentKeepsTier(project_data, target, reply, now) ==
    [_id |-> 0,
     title |-> project_data.title,
     description |-> reply.description,
     project_type |-> project_data.project_type,
     difficulty |-> project_data.difficulty,
     tech_stack |-> reply.tech_stack,
     features |-> None,
     new_features |-> Some(reply.new_features),
     justification |-> Some(reply.justification),
     original_project_id |-> Some(project_data._id),
     created_at |-> Some(now), updated_at |-> Some(now)]

\* mutant: only the fields of the Project model that ProjectBase has are kept
EnhancedDocumentBare(project_data, target, reply, now) ==
    [_id |-> 0,
     title |-> project_data.title,
     description |-> reply.description,
     project_type |-> project_data.project_type,
     difficulty |-> target,
     tech_stack |-> reply.tech_stack,
     features |-> None,
     new_features |-> None,
     justification |-> None,
     original_project_id |-> Some(project_data._id),
     created_at |-> Some(now), updated_at |-> Some(now)]

\* the dictionary enhance_project_with_ai builds from the basis and the reply
EnhancedDocument(project_data, target, reply, now) ==
    [_id |-> 0,
     title |-> project_data.title,
     description |-> reply.description,
     project_type |-> project_data.project_type,
     difficulty |-> target,
     tech_stack |-> reply.tech_stack,
     features |-> None,
     new_features |-> Some(reply.new_features),
     justification |-> Some(reply.justification),
     original_project_id |-> Some(project_data._id),
     created_at |-> Some(now), updated_at |-> Some(now)]

\* ---------------------------------------------------------------------- CORS
\* A string is the sequence of its pieces; " " is white space, "/" a slash.
\* str.strip()
RECURSIVE Strip(_)
Strip(s) ==
    IF s # <<>> /\ Head(s) = " " THEN Strip(Tail(s))
    ELSE IF s # <<>> /\ s[Len(s)] = " " THEN Strip(SubSeq(s, 1, Len(s) - 1))
    ELSE s

\* origin[:-1] if origin.endswith("/") else origin
DropTrailingSlash(s) ==
    IF s # <<>> /\ s[Len(s)] = "/" THEN SubSeq(s, 1, Len(s) - 1) ELSE s

\* str.lower() of the values ENVIRONMENT takes here
Lower(e) == IF e = "PROD" THEN "prod" ELSE e

\* values of the ENVIRONMENT variable ("development" is also the default)
Environments == {"development", "production", "PROD", "staging"}

\* values of ALLOWED_ORIGINS, split at the commas; the empty sequence is the
\* unset or empty variable
OriginsStrings ==
    {<<>>,
     <<<<"https://app.example">>>>,
     <<<<"https://app.example", "/">>, <<" ", "https://admin.example">>>>,
     <<<<"*">>>>,
     <<<<"https://app.example">>, <<" ", "*">>>>}

\* Origin headers of requests; the empty string stands for a missing header
RequestOrigins ==
    {<<>>, <<"https://app.example">>, <<"https://admin.example">>,
     <<"https://evil.example">>, <<"https://app.example", "/">>}

\* the development default "http://localhost:5173,http://localhost:3000"
DefaultOrigins == <<<<"http://localhost:5173">>, <<"http://localhost:3000">>>>

\* add_cors_middleware: the list it hands to CustomCORSMiddleware
add_cors_middleware(environment, allowed_origins_env) ==
    LET is_production == Lower(environment) \in {"prod", "production"}
        origins_str == IF allowed_origins_env = <<>> /\ ~is_production
                       THEN DefaultOrigins ELSE allowed_origins_env
        origins == [i \in 1..Len(origins_str) |->
                        DropTrailingSlash(Strip(origins_str[i]))]
    IN  IF origins = <<>> /\ ~is_production THEN <<<<"*">>>> ELSE origins

\* CustomCORSMiddleware.__init__: allowed_origins or ["*"]
CustomCORSMiddleware(allowed_origins) ==
    IF allowed_origins = <<>> THEN <<<<"*">>>> ELSE allowed_origins

\* _set_cors_headers: the value of Access-Control-Allow-Origin
set_cors_headers(allowed_origins, origin) ==
    IF origin \in Range(allowed_origins) \/ <<"*">> \in Range(allowed_origins)
    THEN origin
    ELSE allowed_origins[1]

\* the CORS layer as the request specifications leave it: not looked at
NoCors ==
    [environment |-> "development", origins_str |-> <<>>,
     allowed_origins |-> <<>>, method |-> "", origin |-> <<>>,
     allow_origin |-> None]

\* --------------------------------------------------------------------- state
\* request slots: the coroutines that can be in flight together
Procs == {1, 2}

VARIABLES
    store,      \* the projects collection, in natural order
    nextId,     \* the next ObjectId the driver generates (also the clock)
    pc,         \* per slot: "idle", the awaited call it is suspended at, "done"
    req,        \* per slot: the request
    loc,        \* per slot: the local variables of the handler and service
    out,        \* per slot: what the request came to
    trace,      \* per slot: the store and provider calls issued, in order
    before,     \* per slot: the collection as it was when the request arrived
    deleted,    \* the ObjectIds that delete_one has removed so far
    cors        \* the CORS configuration and the last request it answered

vars == <<store, nextId, pc, req, loc, out, trace, before, deleted, cors>>

NoReq ==
    [op |-> "none", layer |-> "route", key |-> "none", title |-> "",
     current_difficulty |-> None, target_difficulty |-> "",
     project_type |-> "", difficulty |-> "", id |-> TextString(<<>>)]

NoLoc ==
    [enhanced_project |-> None, current_difficulty |-> None,
     current_project |-> None, reply |-> None, inserted_id |-> None,
     count |-> 0, random_index |-> 0]

\* kind: "pending", "returned" (the service returned value), "raised" (exc
\* propagated out of the handler) or "rejected" (the route itself answered
\* with an error response); resp is the HTTP response, None for a direct
\* call of a service function.
NoOut == [kind |-> "pending", value |-> None, exc |-> None, resp |-> None]

Init ==
    /\ store \in SeedStores
    /\ nextId = Len(store) + 1
    /\ pc = [p \in Procs |-> "idle"]
    /\ req = [p \in Procs |-> NoReq]
    /\ loc = [p \in Procs |-> NoLoc]
    /\ out = [p \in Procs |-> NoOut]
    /\ trace = [p \in Procs |-> <<>>]
    /\ before = [p \in Procs |-> <<>>]
    /\ deleted = {}
    /\ cors = NoCors

\* a request is taken by the lowest free slot
CanStart(p) ==
    /\ pc[p] = "idle"
    /\ \A q \in Procs : q < p => pc[q] # "idle"

\* the service returned value; the route wraps it in a success response
Returns(r, value, message, status) ==
    [kind |-> "returned", value |-> value, exc |-> None,
     resp |-> IF r.layer = "route"
              THEN Some(create_success_response(value, message, status))
              ELSE None]

\* exc leaves the handler; the registered handler turns it into the response
Raises(r, exc) ==
    [kind |-> "raised", value |-> None, exc |-> Some(exc),
     resp |-> IF r.layer = "route" THEN Some(HandleException(exc)) ELSE None]

\* the route returns an error response of its own
Rejects(response) ==
    [kind |-> "rejected", value |-> None, exc |-> None, resp |-> Some(response)]

\* mutant: only the presence of the header is checked
get_api_key_present(key) ==
    IF key = "none"
    THEN Some(HTTPException(UNAUTHORIZED, <<"API Key header not found">>))
    ELSE None

\* get_api_key: the exception the dependency raises for the header value, if any
get_api_key(key) ==
    IF key = "none"
    THEN Some(HTTPException(UNAUTHORIZED, <<"API Key header not found">>))
    ELSE IF key # "valid"
    THEN Some(HTTPException(FORBIDDEN, <<"Invalid API Key">>))
    ELSE None

\* ------------------------------------------------------------------ enhance
\* mutant: the two tiers of the guard swapped
SkipsLevelSwapped(current, target) ==
    current = "advanced" /\ target = "beginner"

\* the guard of enhance_project_route: no skipping from beginner to advanced
SkipsLevel(current, target) ==
    current = "beginner" /\ target = "advanced"

\* mutant: the default basis is always the lowest tier
BasisDifficultyLowest(current, target) ==
    IF ~IsNone(current) THEN current ELSE Some("beginner")

\* the basis tier enhance_project looks up: the supplied current_difficulty,
\* else the tier below the target, else still None
BasisDifficulty(current, target) ==
    IF ~IsNone(current) THEN current
    ELSE IF target = "intermediate" THEN Some("beginner")
    ELSE IF target = "advanced" THEN Some("intermediate")
    ELSE None

\* mutant: the first lookup left out
ExistingEnhancementSkipped(coll, title, target) == None

\* enhance_project returns the existing document when its first lookup hits
ExistingEnhancement(coll, title, target) ==
    find_project_by_title_and_difficulty(coll, title, target)

\* GET /projects/enhance up to the end of the first awaited find_one, or a
\* direct call of enhance_project without current_difficulty
EnhanceLookup(p) ==
    \E title \in ReqTitles, target \in DifficultyLevel,
       current \in {None} \cup {Some(d) : d \in DifficultyLevel} :
      LET r == [NoReq EXCEPT !.op = "enhance",
                    !.layer = IF IsNone(current) THEN "service" ELSE "route",
                    !.title = title, !.current_difficulty = current,
                    !.target_difficulty = target]
          rejected == IF IsNone(current) THEN FALSE
                      ELSE SkipsLevel(current[1], target)
          found == ExistingEnhancement(store, title, target)
          basis == BasisDifficulty(current, target)
      IN
      /\ CanStart(p)
      /\ nextId <= MaxId
      /\ req' = [req EXCEPT ![p] = r]
      /\ before' = [before EXCEPT ![p] = store]
      /\ UNCHANGED <<store, nextId, deleted>>
      /\ IF rejected
         THEN /\ out' = [out EXCEPT ![p] = Rejects(create_error_response(
                    "INVALID_ENHANCEMENT_REQUEST",
                    <<"Cannot skip difficulty levels. Must enhance to intermediate before advanced.">>,
                    None, BAD_REQUEST))]
              /\ pc' = [pc EXCEPT ![p] = "done"]
              /\ UNCHANGED <<loc, trace>>
         ELSE /\ trace' = [trace EXCEPT ![p] = <<"find_one">>]
              /\ loc' = [loc EXCEPT ![p] = [NoLoc EXCEPT
                            !.enhanced_project = found,
                            !.current_difficulty = basis]]
              /\ IF ~IsNone(found)
                 THEN /\ out' = [out EXCEPT ![p] =
                            Returns(r, found, <<"Project enhanced successfully">>, OK)]
                      /\ pc' = [pc EXCEPT ![p] = "done"]
                 ELSE IF IsNone(basis)
                 THEN \* difficulty.value on None, before the query is sent
                      /\ out' = [out EXCEPT ![p] = Raises(r, PlainExc("AttributeError",
                            <<"'NoneType' object has no attribute 'value'">>))]
                      /\ pc' = [pc EXCEPT ![p] = "done"]
                 ELSE /\ pc' = [pc EXCEPT ![p] = "enhance_basis"]
                      /\ UNCHANGED out

\* enhance_project: the awaited lookup of the basis project
EnhanceBasis(p) ==
    LET r == req[p]
        current == loc[p].current_difficulty[1]
        current_project ==
            find_project_by_title_and_difficulty(store, r.title, current)
    IN
    /\ pc[p] = "enhance_basis"
    /\ trace' = [trace EXCEPT ![p] = Append(@, "find_one")]
    /\ loc' = [loc EXCEPT ![p].current_project = current_project]
    /\ UNCHANGED <<store, nextId, req, before, deleted>>
    /\ IF IsNone(current_project)
       THEN /\ out' = [out EXCEPT ![p] = Raises(r, ResourceNotFoundException(
                  "Project",
                  <<"Original project with title '", r.title,
                    "' and difficulty '", current, "' not found">>))]
            /\ pc' = [pc EXCEPT ![p] = "done"]
       ELSE /\ pc' = [pc EXCEPT ![p] = "enhance_check"]
            /\ UNCHANGED out

\* enhance_project_with_ai: the awaited check for an existing enhancement
EnhanceCheck(p) ==
    LET r == req[p]
        F(d) == EnhancedFilter(d, loc[p].current_project[1], r.target_difficulty)
        enhanced_project == FindOne(store, F)
    IN
    /\ pc[p] = "enhance_check"
    /\ trace' = [trace EXCEPT ![p] = Append(@, "find_one")]
    /\ UNCHANGED <<store, nextId, req, before, deleted>>
    /\ IF ~IsNone(enhanced_project)
       THEN /\ out' = [out EXCEPT ![p] = Returns(r,
                  ProjectHelperOpt(enhanced_project),
                  <<"Project enhanced successfully">>, OK)]
            /\ loc' = [loc EXCEPT ![p].enhanced_project =
                           ProjectHelperOpt(enhanced_project)]
            /\ pc' = [pc EXCEPT ![p] = "done"]
       ELSE /\ pc' = [pc EXCEPT ![p] = "enhance_generate"]
            /\ UNCHANGED <<out, loc>>

\* enhance_project_with_ai: the prompt, the provider call, the parse of the
\* reply and, when the reply carries the four keys, the awaited insert_one
EnhanceGenerate(p) ==
    \E reply \in Replies :
      LET r == req[p]
          doc == EnhancedDocument(loc[p].current_project[1],
                                  r.target_difficulty, reply, nextId)
          prompt_exc == create_enhancement_prompt(loc[p].current_project[1],
                                                  r.target_difficulty)
      IN
      /\ pc[p] = "enhance_generate"
      /\ UNCHANGED <<req, before, deleted>>
      /\ IF ~IsNone(prompt_exc)
         THEN /\ out' = [out EXCEPT ![p] = Raises(r, prompt_exc[1])]
              /\ pc' = [pc EXCEPT ![p] = "done"]
              /\ UNCHANGED <<store, nextId, loc, trace>>
         ELSE IF GenerationSucceeds(reply)
         THEN /\ store' = InsertOne(store, doc, nextId)
              /\ nextId' = nextId + 1
              /\ loc' = [loc EXCEPT ![p].reply = Some(reply),
                                     ![p].inserted_id = Some(nextId)]
              /\ trace' = [trace EXCEPT ![p] = @ \o <<"provider", "insert_one">>]
              /\ pc' = [pc EXCEPT ![p] = "enhance_reread"]
              /\ UNCHANGED out
         ELSE /\ out' = [out EXCEPT ![p] = Raises(r, ResourceNotFoundException(
                    "Enhanced Project",
                    <<"Unable to generate an enhanced version of this project">>))]
              /\ loc' = [loc EXCEPT ![p].reply = Some(reply)]
              /\ trace' = [trace EXCEPT ![p] = Append(@, "provider")]
              /\ pc' = [pc EXCEPT ![p] = "done"]
              /\ UNCHANGED <<store, nextId>>

\* enhance_project_with_ai: the awaited re-read of the saved document
EnhanceReread(p) ==
    LET r == req[p]
        saved_project == FindById(store, loc[p].inserted_id[1])
    IN
    /\ pc[p] = "enhance_reread"
    /\ trace' = [trace EXCEPT ![p] = Append(@, "find_one")]
    /\ out' = [out EXCEPT ![p] = Returns(r, ProjectHelperOpt(saved_project),
                                         <<"Project enhanced successfully">>, OK)]
    /\ pc' = [pc EXCEPT ![p] = "done"]
    /\ UNCHANGED <<store, nextId, req, loc, before, deleted>>

\* ----------------------------------------------------------------- generate
\* {"project_type": project_type, "difficulty": difficulty}
TypeDifficultyFilter(d, project_type, difficulty) ==
    d.project_type = project_type /\ d.difficulty = difficulty

\* count_documents(query)
CountDocuments(coll, project_type, difficulty) ==
    LET F(d) == TypeDifficultyFilter(d, project_type, difficulty)
    IN  Cardinality(Matching(coll, F))

\* find(query).skip(k).limit(1): the documents the cursor yields
SkipLimitOne(coll, project_type, difficulty, k) ==
    LET F(d) == TypeDifficultyFilter(d, project_type, difficulty)
        m == SelectSeq(coll, F)
    IN  IF k < Len(m) THEN Some(m[k + 1]) ELSE None

\* mutant: the offset drawn from 0..count
RandomIndexInclusive(count) == 0..count

\* random.randint(0, count - 1): both ends included
RandomIndex(count) == 0..(count - 1)

\* GET /projects/generate, which asks for the beginner tier, or a direct
\* call of generate_random_project for another tier, up to the end of the
\* awaited count_documents and the draw of random_index
GenerateCount(p) ==
    \E project_type \in ProjectType, difficulty \in DifficultyLevel :
      LET r == [NoReq EXCEPT !.op = "generate",
                    !.layer = IF difficulty = "beginner" THEN "route" ELSE "service",
                    !.project_type = project_type, !.difficulty = difficulty]
          count == CountDocuments(store, project_type, difficulty)
      IN
      /\ CanStart(p)
      /\ req' = [req EXCEPT ![p] = r]
      /\ before' = [before EXCEPT ![p] = store]
      /\ trace' = [trace EXCEPT ![p] = <<"count_documents">>]
      /\ UNCHANGED <<store, nextId, deleted>>
      /\ IF count = 0
         THEN /\ out' = [out EXCEPT ![p] = Raises(r, ResourceNotFoundException(
                    "Projects",
                    <<"No projects found matching the selected criteria">>))]
              /\ loc' = [loc EXCEPT ![p] = NoLoc]
              /\ pc' = [pc EXCEPT ![p] = "done"]
         ELSE \E random_index \in RandomIndex(count) :
              /\ loc' = [loc EXCEPT ![p] = [NoLoc EXCEPT !.count = count,
                                               !.random_index = random_index]]
              /\ pc' = [pc EXCEPT ![p] = "generate_fetch"]
              /\ UNCHANGED out

\* generate_random_project: the awaited cursor.next()
GenerateFetch(p) ==
    LET r == req[p]
        project == SkipLimitOne(store, r.project_type, r.difficulty,
                                loc[p].random_index)
    IN
    /\ pc[p] = "generate_fetch"
    /\ trace' = [trace EXCEPT ![p] = Append(@, "find_skip_limit")]
    /\ out' = [out EXCEPT ![p] =
          IF IsNone(project)
          THEN Raises(r, PlainExc("StopAsyncIteration", <<>>))
          ELSE Returns(r, ProjectHelperOpt(project),
                       <<"Project generated successfully">>, OK)]
    /\ pc' = [pc EXCEPT ![p] = "done"]
    /\ UNCHANGED <<store, nextId, req, loc, before, deleted>>

\* ------------------------------------------------------------------- create
\* POST /projects/create: after the key check the handler reads
\* project_data.features, which ProjectBase does not declare
CreateProject(p) ==
    \E key \in ApiKeys :
      LET r == [NoReq EXCEPT !.op = "create", !.key = key]
          denied == get_api_key(key)
      IN
      /\ CanStart(p)
      /\ req' = [req EXCEPT ![p] = r]
      /\ out' = [out EXCEPT ![p] =
            IF ~IsNone(denied) THEN Raises(r, denied[1])
            ELSE Raises(r, PlainExc("AttributeError",
                   <<"'ProjectBase' object has no attribute 'features'">>))]
      /\ pc' = [pc EXCEPT ![p] = "done"]
      /\ before' = [before EXCEPT ![p] = store]
      /\ UNCHANGED <<store, nextId, loc, trace, deleted>>

\* ------------------------------------------------------------------- delete
\* identifiers a caller may send: those of ObjectIds handed out so far, the
\* next one, and two strings that are no ObjectId
DeleteIds ==
    {HexString(n) : n \in 1..nextId}
    \cup {TextString(<<"not-a-valid-id">>), TextString(<<"Invalid", "ObjectId">>)}

\* the except clause of delete_project_route
delete_route_except(exc) ==
    IF Contains(exc.text, <<"Invalid", "ObjectId">>)
    THEN InvalidIDException ELSE exc

\* DELETE /projects/delete/{id} up to the end of the awaited find_one
DeleteFind(p) ==
    \E key \in ApiKeys, id \in DeleteIds :
      LET r == [NoReq EXCEPT !.op = "delete", !.key = key, !.id = id]
          denied == get_api_key(key)
          project == FindById(store, StrToObjectId(id))
          missing == ResourceNotFoundException("Project",
                        <<"Project", "with", "ID">> \o IdWords(id)
                           \o <<"not", "found">>)
      IN
      /\ CanStart(p)
      \* a request without the valid key is tried with one identifier only
      /\ key # "valid" => id = HexString(1)
      /\ req' = [req EXCEPT ![p] = r]
      /\ before' = [before EXCEPT ![p] = store]
      /\ UNCHANGED <<store, nextId, loc, deleted>>
      /\ IF ~IsNone(denied)
         THEN /\ out' = [out EXCEPT ![p] = Raises(r, denied[1])]
              /\ pc' = [pc EXCEPT ![p] = "done"]
              /\ UNCHANGED trace
         ELSE IF ~ObjectIdIsValid(id)
         THEN \* ObjectId(project_id) raises before find_one is called
              /\ out' = [out EXCEPT ![p] = Raises(r, delete_route_except(
                             PlainExc("InvalidId", InvalidIdText(id))))]
              /\ pc' = [pc EXCEPT ![p] = "done"]
              /\ UNCHANGED trace
         ELSE /\ trace' = [trace EXCEPT ![p] = <<"find_one">>]
              /\ IF IsNone(project)
                 THEN /\ out' = [out EXCEPT ![p] =
                                    Raises(r, delete_route_except(missing))]
                      /\ pc' = [pc EXCEPT ![p] = "done"]
                 ELSE /\ pc' = [pc EXCEPT ![p] = "delete_delete"]
                      /\ UNCHANGED out

\* delete_project: the awaited delete_one
DeleteDelete(p) ==
    LET r == req[p] IN
    /\ pc[p] = "delete_delete"
    /\ store' = DeleteOne(store, StrToObjectId(r.id))
    /\ deleted' = deleted \cup {StrToObjectId(r.id)}
    /\ trace' = [trace EXCEPT ![p] = Append(@, "delete_one")]
    /\ out' = [out EXCEPT ![p] = Returns(r, Some([id |-> r.id]),
                                         <<"Project deleted successfully">>, OK)]
    /\ pc' = [pc EXCEPT ![p] = "done"]
    /\ UNCHANGED <<nextId, req, loc, before>>

\* ------------------------------------------------------------ specification
\* the response is sent and the slot is free again
Finish(p) ==
    /\ pc[p] = "done"
    /\ pc' = [pc EXCEPT ![p] = "idle"]
    /\ req' = [req EXCEPT ![p] = NoReq]
    /\ loc' = [loc EXCEPT ![p] = NoLoc]
    /\ out' = [out EXCEPT ![p] = NoOut]
    /\ trace' = [trace EXCEPT ![p] = <<>>]
    /\ before' = [before EXCEPT ![p] = <<>>]
    /\ UNCHANGED <<store, nextId, deleted>>

Step(p) ==
    \/ GenerateCount(p)
    \/ GenerateFetch(p)
    \/ EnhanceLookup(p)
    \/ EnhanceBasis(p)
    \/ EnhanceCheck(p)
    \/ EnhanceGenerate(p)
    \/ EnhanceReread(p)
    \/ CreateProject(p)
    \/ DeleteFind(p)
    \/ DeleteDelete(p)
    \/ Finish(p)

\* requests interleave at their awaited calls
Next == \E p \in Procs : Step(p) /\ UNCHANGED cors

Spec == Init /\ [][Next]_vars

\* requests are served one after the other: a slot moves only while every
\* other slot is idle
Alone(p) == \A q \in Procs \ {p} : pc[q] = "idle"

SeqNext ==
    \E p \in Procs :
        \/ Alone(p) /\ GenerateCount(p) /\ UNCHANGED cors
        \/ Alone(p) /\ GenerateFetch(p) /\ UNCHANGED cors
        \/ Alone(p) /\ EnhanceLookup(p) /\ UNCHANGED cors
        \/ Alone(p) /\ EnhanceBasis(p) /\ UNCHANGED cors
        \/ Alone(p) /\ EnhanceCheck(p) /\ UNCHANGED cors
        \/ Alone(p) /\ EnhanceGenerate(p) /\ UNCHANGED cors
        \/ Alone(p) /\ EnhanceReread(p) /\ UNCHANGED cors
        \/ Alone(p) /\ CreateProject(p) /\ UNCHANGED cors
        \/ Alone(p) /\ DeleteFind(p) /\ UNCHANGED cors
        \/ Alone(p) /\ DeleteDelete(p) /\ UNCHANGED cors
        \/ Alone(p) /\ Finish(p) /\ UNCHANGED cors

SeqSpec == Init /\ [][SeqNext]_vars

\* Two requests in flight together: each slot takes one request, and the two
\* interleave at their awaited calls in every possible way (the second may
\* also arrive after the first has ended).
ConcNext ==
    \E p \in Procs :
        \/ GenerateCount(p) /\ UNCHANGED cors
        \/ GenerateFetch(p) /\ UNCHANGED cors
        \/ EnhanceLookup(p) /\ UNCHANGED cors
        \/ EnhanceBasis(p) /\ UNCHANGED cors
        \/ EnhanceCheck(p) /\ UNCHANGED cors
        \/ EnhanceGenerate(p) /\ UNCHANGED cors
        \/ EnhanceReread(p) /\ UNCHANGED cors
        \/ CreateProject(p) /\ UNCHANGED cors
        \/ DeleteFind(p) /\ UNCHANGED cors
        \/ DeleteDelete(p) /\ UNCHANGED cors

\* the overlapping requests find a collection of up to MaxConcSeed documents
ConcInit == Init /\ Len(store) <= MaxConcSeed

ConcSpec == ConcInit /\ [][ConcNext]_vars

\* The CORS layer on its own: the application is built under some
\* ENVIRONMENT and ALLOWED_ORIGINS, and requests with any Origin pass through
\* the middleware; what the routes do is left out.
CorsInit ==
    /\ store = <<>>
    /\ nextId = 1
    /\ pc = [p \in Procs |-> "idle"]
    /\ req = [p \in Procs |-> NoReq]
    /\ loc = [p \in Procs |-> NoLoc]
    /\ out = [p \in Procs |-> NoOut]
    /\ trace = [p \in Procs |-> <<>>]
    /\ before = [p \in Procs |-> <<>>]
    /\ deleted = {}
    /\ \E environment \in Environments, origins_str \in OriginsStrings :
          cors = [NoCors EXCEPT
                    !.environment = environment,
                    !.origins_str = origins_str,
                    !.allowed_origins = CustomCORSMiddleware(
                        add_cors_middleware(environment, origins_str))]

\* dispatch for an OPTIONS request: a fresh 200 response with the headers
DispatchOptions ==
    \E origin \in RequestOrigins :
        /\ cors' = [cors EXCEPT !.method = "OPTIONS", !.origin = origin,
                       !.allow_origin =
                           Some(set_cors_headers(cors.allowed_origins, origin))]
        /\ UNCHANGED <<store, nextId, pc, req, loc, out, trace, before, deleted>>

\* dispatch for any other request: the headers are set on the response that
\* call_next returned
DispatchCallNext ==
    \E origin \in RequestOrigins, method \in {"GET", "POST", "DELETE"} :
        /\ cors' = [cors EXCEPT !.method = method, !.origin = origin,
                       !.allow_origin =
                           Some(set_cors_headers(cors.allowed_origins, origin))]
        /\ UNCHANGED <<store, nextId, pc, req, loc, out, trace, before, deleted>>

CorsNext == DispatchOptions \/ DispatchCallNext

CorsSpec == CorsInit /\ [][CorsNext]_vars

\* ========================================================== properties
\* documents of coll with the given title and difficulty, as positions
AtTier(coll, title, difficulty) ==
    {i \in 1..Len(coll) :
        coll[i].title = title /\ coll[i].difficulty = difficulty}

\* an enhance request that got past the route's guard and has ended
EnhanceEnded(p) ==
    /\ pc[p] = "done"
    /\ req[p].op = "enhance"
    /\ out[p].kind # "rejected"

\* the request ended with a ResourceNotFoundException for resource, which a
\* route caller sees as 404 / ResourceNotFound with the same message
FailedNotFound(p, resource) ==
    /\ out[p].kind = "raised"
    /\ out[p].exc[1].type = "ResourceNotFoundException"
    /\ out[p].exc[1].resource_name = resource
    /\ out[p].exc[1].status_code = 404
    /\ req[p].layer = "route" =>
          /\ out[p].resp[1].status_code = 404
          /\ out[p].resp[1].status = "Error"
          /\ out[p].resp[1].error = "ResourceNotFound"
          /\ out[p].resp[1].message = out[p].exc[1].detail
          /\ out[p].resp[1].details = None

\* documents that enhance has generated carry the back-reference
Generated(d) == d.original_project_id # None

\* C1: with requests served one after the other, an enhance request that
\* finds a document with its title at the target tier in the collection at
\* its first lookup returns the projection of that document (the first in
\* natural order), calls the provider not at all, and leaves the collection
\* as it was; and a document that enhance generated stays the only one with
\* its title and tier, so every later call for them returns that document.
C1_ExistingEnhancementReturned ==
    /\ \A p \in Procs :
         (EnhanceEnded(p)
            /\ AtTier(before[p], req[p].title, req[p].target_difficulty) # {})
         => LET i == Min(AtTier(before[p], req[p].title,
                                req[p].target_difficulty))
            IN /\ out[p].kind = "returned"
               /\ out[p].value = Some(project_helper(before[p][i]))
               /\ trace[p] = <<"find_one">>
               /\ store = before[p]
               /\ req[p].layer = "route" =>
                    /\ out[p].resp[1].status_code = 200
                    /\ out[p].resp[1].data = out[p].value
    /\ \A i \in 1..Len(store) :
         Generated(store[i])
         => AtTier(store, store[i].title, store[i].difficulty) = {i}

\* C1 witness: a later call returns a document that an earlier enhance call
\* generated, without a provider call
C1_Witness ==
    \E p \in Procs : \E i \in 1..Len(store) :
        /\ EnhanceEnded(p)
        /\ Generated(store[i])
        /\ before[p] = store
        /\ out[p].value = Some(project_helper(store[i]))
        /\ trace[p] = <<"find_one">>

\* C2: an enhance request to the route with current_difficulty = beginner
\* and target_difficulty = advanced is answered 400 /
\* INVALID_ENHANCEMENT_REQUEST without any store or provider call, whatever
\* the collection holds.
C2_SkipRejectedUpstream ==
    \A p \in Procs :
        (/\ req[p].op = "enhance"
         /\ req[p].layer = "route"
         /\ req[p].current_difficulty = Some("beginner")
         /\ req[p].target_difficulty = "advanced")
        => /\ pc[p] = "done"
           /\ out[p].kind = "rejected"
           /\ out[p].resp[1].status_code = 400
           /\ out[p].resp[1].error = "INVALID_ENHANCEMENT_REQUEST"
           /\ out[p].resp[1].data = None
           /\ trace[p] = <<>>
           /\ store = before[p]

\* C2 witness: such a request is rejected although the collection holds
\* both a beginner and an advanced document with the title
C2_Witness ==
    \E p \in Procs :
        /\ req[p].op = "enhance"
        /\ req[p].current_difficulty = Some("beginner")
        /\ req[p].target_difficulty = "advanced"
        /\ out[p].kind = "rejected"
        /\ AtTier(store, req[p].title, "advanced") # {}
        /\ AtTier(store, req[p].title, "beginner") # {}

\* the tier enhance takes the basis from: the supplied one, else the one
\* below the target (none below beginner)
BasisTier(r) ==
    IF r.current_difficulty # None THEN r.current_difficulty
    ELSE IF r.target_difficulty = "intermediate" THEN Some("beginner")
    ELSE IF r.target_difficulty = "advanced" THEN Some("intermediate")
    ELSE None

\* C3: with requests served one after the other, an enhance request that
\* reaches the resolver while the collection holds no document with its
\* title at the target tier and none at the basis tier fails with
\* ResourceNotFound for "Project", having issued two lookups and no provider
\* call, and the collection is as it was.
C3_MissingBasisNotFound ==
    \A p \in Procs :
        (/\ EnhanceEnded(p)
         /\ BasisTier(req[p]) # None
         /\ AtTier(before[p], req[p].title, req[p].target_difficulty) = {}
         /\ AtTier(before[p], req[p].title, BasisTier(req[p])[1]) = {})
        => /\ FailedNotFound(p, "Project")
           /\ trace[p] = <<"find_one", "find_one">>
           /\ store = before[p]

\* C3 witness: the request fails for want of a basis while the collection
\* holds the title at another tier and another title at the basis tier
C3_Witness ==
    \E p \in Procs :
        /\ EnhanceEnded(p)
        /\ FailedNotFound(p, "Project")
        /\ req[p].current_difficulty = None
        /\ \E i \in 1..Len(store) : store[i].title = req[p].title
        /\ \E i \in 1..Len(store) :
              /\ store[i].title # req[p].title
              /\ store[i].difficulty = BasisTier(req[p])[1]

\* C4 (as claimed): every request to the enhance route with
\* target_difficulty = beginner is rejected before the resolver runs, and no
\* document generated by enhance has difficulty beginner.
C4_NeverProducesBeginner ==
    /\ \A p \in Procs :
         (/\ req[p].op = "enhance"
          /\ req[p].layer = "route"
          /\ req[p].target_difficulty = "beginner")
         => /\ out[p].kind = "rejected"
            /\ trace[p] = <<>>
    /\ \A i \in 1..Len(store) :
         Generated(store[i]) => store[i].difficulty # "beginner"

\* position of a tier in beginner < intermediate < advanced
TierRank(difficulty) ==
    CASE difficulty = "beginner" -> 1
      [] difficulty = "intermediate" -> 2
      [] difficulty = "advanced" -> 3

\* C5 (as claimed): every document generated by enhance lies exactly one
\* tier above the basis document its back-reference names.
C5_OneTierAboveBasis ==
    \A i \in 1..Len(store) : \A j \in 1..Len(store) :
        (/\ Generated(store[i])
         /\ store[i].original_project_id = Some(ObjectIdToStr(store[j]._id)))
        => TierRank(store[i].difficulty) = TierRank(store[j].difficulty) + 1

\* the reply lets the generation step through: the call returned an object
\* with description, tech_stack, new_features and justification
ReplyUsable(reply) ==
    /\ reply.kind = "object"
    /\ \A k \in {"description", "tech_stack", "new_features", "justification"} :
          k \in reply.keys

\* C6: with requests served one after the other, when the provider call
\* fails, or its reply is not JSON, no object, or lacks one of the four keys,
\* enhance fails with ResourceNotFound for "Enhanced Project" and the fixed
\* message, the response carries no details, and nothing was inserted.
C6_GenerationFailureCollapses ==
    \A p \in Procs :
        (/\ req[p].op = "enhance"
         /\ loc[p].reply # None
         /\ ~ReplyUsable(loc[p].reply[1]))
        => /\ pc[p] = "done"
           /\ FailedNotFound(p, "Enhanced Project")
           /\ out[p].exc[1].detail =
                <<"Unable to generate an enhanced version of this project">>
           /\ loc[p].inserted_id = None
           /\ trace[p][Len(trace[p])] = "provider"
           /\ \A k \in 1..Len(trace[p]) : trace[p][k] # "insert_one"
           /\ store = before[p]
           /\ nextId = Len(before[p]) + Cardinality(deleted) + 1

\* C6 witness: a route request ends so after a reply that lacks only the
\* justification key
C6_Witness ==
    \E p \in Procs :
        /\ pc[p] = "done"
        /\ req[p].layer = "route"
        /\ loc[p].reply # None
        /\ loc[p].reply[1].kind = "object"
        /\ loc[p].reply[1].keys = {"description", "tech_stack", "new_features"}
        /\ FailedNotFound(p, "Enhanced Project")

\* C7: with requests served one after the other, an enhance request whose
\* generation succeeds leaves the collection with exactly one more document,
\* the last one: title and project_type of the basis, the target difficulty,
\* the four fields of the reply, and the basis identifier (in its string
\* form) as original_project_id; the basis is a document the collection held
\* with the requested title at the basis tier; the request returns the
\* projection of the new document.
C7_GeneratedDocumentPersisted ==
    \A p \in Procs :
        (/\ EnhanceEnded(p)
         /\ loc[p].reply # None
         /\ ReplyUsable(loc[p].reply[1]))
        => LET reply == loc[p].reply[1]
               basis == loc[p].current_project[1]
               new == store[Len(store)]
           IN /\ Len(store) = Len(before[p]) + 1
              /\ SubSeq(store, 1, Len(before[p])) = before[p]
              /\ \A i \in 1..Len(before[p]) : before[p][i]._id # new._id
              /\ new.title = basis.title
              /\ new.title = req[p].title
              /\ new.project_type = basis.project_type
              /\ new.difficulty = req[p].target_difficulty
              /\ new.description = reply.description
              /\ new.tech_stack = reply.tech_stack
              /\ new.new_features = Some(reply.new_features)
              /\ new.justification = Some(reply.justification)
              /\ new.original_project_id = Some(basis._id)
              /\ \E j \in AtTier(before[p], req[p].title, BasisTier(req[p])[1]) :
                    /\ basis = project_helper(before[p][j])
                    /\ new.original_project_id = Some(ObjectIdToStr(before[p][j]._id))
              /\ out[p].kind = "returned"
              /\ out[p].value = Some(project_helper(new))
              /\ Len(SelectSeq(trace[p], LAMBDA op : op = "insert_one")) = 1
              /\ Len(SelectSeq(trace[p], LAMBDA op : op = "provider")) = 1

\* C7 witness: an intermediate document generated from a beginner basis by
\* the second kind of reply has been returned
C7_Witness ==
    \E p \in Procs :
        /\ EnhanceEnded(p)
        /\ out[p].kind = "returned"
        /\ loc[p].reply # None
        /\ loc[p].reply[1].description = "enhanced two"
        /\ loc[p].current_project[1].difficulty = "beginner"
        /\ store[Len(store)].difficulty = "intermediate"
        /\ store[Len(store)].new_features = Some(<<"search", "chat">>)
        /\ Len(store) > 1

\* C8 (as claimed): what enhance returns has the requested title, the
\* target difficulty, and the project_type of the basis project, i.e. of the
\* first document the collection holds with that title at the current tier.
C8_ReturnedSharesTitleAndType ==
    \A p \in Procs :
        (/\ EnhanceEnded(p)
         /\ out[p].kind = "returned"
         /\ out[p].value # None
         /\ BasisTier(req[p]) # None)
        => LET v == out[p].value[1]
               basis == AtTier(before[p], req[p].title, BasisTier(req[p])[1])
           IN /\ v.title = req[p].title
              /\ v.difficulty = req[p].target_difficulty
              /\ basis # {} =>
                    v.project_type = before[p][Min(basis)].project_type

\* a delete request that passed the key check
DeleteAuthorised(p) ==
    /\ req[p].op = "delete"
    /\ req[p].key = "valid"

\* C9 (as claimed): an authorised delete with an identifier that is no
\* ObjectId is answered 400 / InvalidID (not 404, not 500) without any
\* store call.
C9_MalformedIdIsInvalidId ==
    \A p \in Procs :
        (/\ DeleteAuthorised(p)
         /\ req[p].id.words # <<>>)
        => /\ pc[p] = "done"
           /\ trace[p] = <<>>
           /\ store = before[p]
           /\ out[p].resp[1].status_code = 400
           /\ out[p].resp[1].error = "InvalidID"

\* the identifiers of the documents of coll
Ids(coll) == {coll[i]._id : i \in 1..Len(coll)}

\* C10: with requests served one after the other, an authorised delete of a
\* well-formed identifier that the collection does not hold fails NotFound
\* and leaves the collection as it was; one of an identifier it holds
\* returns {id} and leaves the collection without that document and
\* otherwise as it was; an identifier once deleted is held no more, so a
\* later delete of it fails NotFound.
C10_DeleteDeterminism ==
    /\ \A p \in Procs :
         (/\ DeleteAuthorised(p)
          /\ pc[p] = "done"
          /\ req[p].id.words = <<>>)
         => LET oid == req[p].id.hex
                held == {i \in 1..Len(before[p]) : before[p][i]._id = oid}
            IN IF held = {}
               THEN /\ FailedNotFound(p, "Project")
                    /\ store = before[p]
                    /\ trace[p] = <<"find_one">>
               ELSE /\ out[p].kind = "returned"
                    /\ out[p].value = Some([id |-> req[p].id])
                    /\ out[p].resp[1].status_code = 200
                    /\ out[p].resp[1].data = Some([id |-> req[p].id])
                    /\ Cardinality(held) = 1
                    /\ Len(store) = Len(before[p]) - 1
                    /\ \A i \in 1..Len(store) :
                          store[i] = before[p][IF i < Min(held) THEN i ELSE i + 1]
                    /\ oid \in deleted
    /\ \A p \in Procs :
         (/\ DeleteAuthorised(p)
          /\ pc[p] = "done"
          /\ req[p].id.words = <<>>
          /\ req[p].id.hex \in deleted
          /\ \A k \in 1..Len(trace[p]) : trace[p][k] # "delete_one")
         => /\ FailedNotFound(p, "Project")
            /\ store = before[p]
    /\ deleted \cap Ids(store) = {}

\* C10 witness: the second delete of an identifier has failed NotFound while
\* the collection still holds another document
C10_Witness ==
    \E p \in Procs :
        /\ DeleteAuthorised(p)
        /\ pc[p] = "done"
        /\ req[p].id.hex \in deleted
        /\ FailedNotFound(p, "Project")
        /\ Len(store) >= 1

\* C10 witness, first delete: the older of two documents has been removed
\* and the younger one is still there
C10_WitnessRemoved ==
    \E p \in Procs :
        /\ DeleteAuthorised(p)
        /\ pc[p] = "done"
        /\ out[p].kind = "returned"
        /\ Len(before[p]) = 2
        /\ req[p].id.hex = before[p][1]._id
        /\ store = <<before[p][2]>>

\* documents of coll with the given project_type and difficulty, as positions
OfKind(coll, project_type, difficulty) ==
    {i \in 1..Len(coll) :
        coll[i].project_type = project_type /\ coll[i].difficulty = difficulty}

\* a generate request that has ended
GenerateEnded(p) == pc[p] = "done" /\ req[p].op = "generate"

\* C11: with requests served one after the other, a generate request for a
\* project_type and difficulty that some document of the collection has
\* returns the projection of one of those documents (count_documents, then
\* one skip-and-take-one query that yields a document), and one that no
\* document has fails with ResourceNotFound; the collection is as it was.
C11_GenerateReturnsMatching ==
    \A p \in Procs :
        GenerateEnded(p)
        => LET m == OfKind(before[p], req[p].project_type, req[p].difficulty)
           IN /\ store = before[p]
              /\ IF m = {}
                 THEN /\ FailedNotFound(p, "Projects")
                      /\ trace[p] = <<"count_documents">>
                 ELSE /\ out[p].kind = "returned"
                      /\ \E i \in m : out[p].value = Some(project_helper(before[p][i]))
                      /\ out[p].value[1].project_type = req[p].project_type
                      /\ out[p].value[1].difficulty = req[p].difficulty
                      /\ loc[p].count = Cardinality(m)
                      /\ loc[p].random_index \in 0..(Cardinality(m) - 1)
                      /\ trace[p] = <<"count_documents", "find_skip_limit">>
                      /\ req[p].layer = "route" =>
                            /\ out[p].resp[1].status_code = 200
                            /\ out[p].resp[1].data = out[p].value

\* C11 witness: of two matching documents the second one was returned, while
\* the collection holds them in that order
C11_Witness ==
    \E p \in Procs :
        /\ GenerateEnded(p)
        /\ OfKind(store, req[p].project_type, req[p].difficulty) = {1, 2}
        /\ loc[p].random_index = 1
        /\ out[p].value = Some(project_helper(store[2]))

\* C11 witness, first document: of two matching documents the first one was
\* returned
C11_WitnessFirst ==
    \E p \in Procs :
        /\ GenerateEnded(p)
        /\ OfKind(store, req[p].project_type, req[p].difficulty) = {1, 2}
        /\ out[p].value = Some(project_helper(store[1]))

\* x is a list (a JSON array): a function on 1..n
IsList(x) == DOMAIN x = 1..Cardinality(DOMAIN x)

\* x is a mapping (a JSON object): a set of key-value pairs
IsMapping(x) == \A e \in x : Len(e) = 2

\* C12 (as claimed): the projection of every document that enhance has
\* stored (the create endpoint stores none) has features and new_features
\* that are lists and a justification that is a mapping, none of them
\* null; and the projection of None is None.
C12_ProjectionTotal ==
    /\ ProjectHelperOpt(None) = None
    /\ \A i \in 1..Len(store) :
         Generated(store[i])
         => LET v == project_helper(store[i])
            IN /\ IsList(v.features)
               /\ IsList(v.new_features)
               /\ IsMapping(v.justification)

C14_CreateInsertsOne ==
    \A p \in Procs :
        (/\ pc[p] = "done"
         /\ req[p].op = "create"
         /\ req[p].key = "valid")
        => /\ out[p].kind = "returned"
           /\ Len(store) = Len(before[p]) + 1
           /\ SubSeq(store, 1, Len(before[p])) = before[p]
           /\ store[Len(store)]._id \notin Ids(before[p])
           /\ out[p].value = Some(project_helper(store[Len(store)]))

\* the request in slot p has issued a call that writes to the collection
HasWritten(p) ==
    \E k \in 1..Len(trace[p]) : trace[p][k] \in {"insert_one", "delete_one"}

\* a step keeps every document that is in the collection before and after it
\* as it is, field by field
KeepsDocuments ==
    \A i \in 1..Len(store) : \A j \in 1..Len(store') :
        store[i]._id = store'[j]._id => store[i] = store'[j]

\* a step that changes the collection is the insert_one of an enhance
\* request, which adds one document at the end, or the delete_one of a delete
\* request, which takes documents away and leaves the rest in their order
OnlyInsertOrDelete ==
    store' # store =>
        \E p \in Procs :
            \/ /\ req[p].op = "enhance"
               /\ trace'[p] = trace[p] \o <<"provider", "insert_one">>
               /\ Len(store') = Len(store) + 1
               /\ SubSeq(store', 1, Len(store)) = store
            \/ /\ req[p].op = "delete"
               /\ trace'[p] = Append(trace[p], "delete_one")
               /\ store' = DeleteOne(store, StrToObjectId(req[p].id))

\* C15: with two requests interleaved in any way, no step changes a field
\* of a document that stays in the collection; the collection changes only
\* by the insert of an enhance request and the delete of a delete request;
\* and a generate request, an enhance request that returns a document it
\* found, a create request and every request that failed have issued no
\* writing call.
C15_NoInPlaceUpdate ==
    /\ [][KeepsDocuments /\ OnlyInsertOrDelete]_vars
    /\ [](\A p \in Procs :
            (\/ req[p].op \in {"generate", "create"}
             \/ out[p].kind \in {"raised", "rejected"}
             \/ (req[p].op = "enhance" /\ out[p].kind = "returned"
                    /\ loc[p].inserted_id = None))
            => ~HasWritten(p))

\* C15 witness: an enhance request has inserted a document, an overlapping
\* or later delete request has removed one, and the document that was there
\* from the start is still there as it was
C15_Witness ==
    \E p \in Procs : \E q \in Procs :
        /\ req[p].op = "enhance"
        /\ loc[p].inserted_id # None
        /\ req[q].op = "delete"
        /\ out[q].kind = "returned"
        /\ Len(before[p]) = 1
        /\ store = before[p]

\* the request in slot p is an enhance request that has inserted a document
HasInserted(p) ==
    /\ req[p].op = "enhance"
    /\ loc[p].inserted_id # None

\* C16: when two enhance requests for the same title and target have both
\* inserted a document, the second arrived while the collection was still
\* as the first found it (both missed the lookups), each called the
\* provider once, and the collection is the one they found followed by two
\* documents with different identifiers, the requested title and the target
\* difficulty: no document that was there before is changed.
C16_ConcurrentEnhanceDuplicates ==
    (/\ HasInserted(1)
     /\ HasInserted(2)
     /\ req[1].title = req[2].title
     /\ req[1].target_difficulty = req[2].target_difficulty)
    => /\ before[2] = before[1]
       /\ Len(store) = Len(before[1]) + 2
       /\ SubSeq(store, 1, Len(before[1])) = before[1]
       /\ \A p \in Procs :
             /\ Len(SelectSeq(trace[p], LAMBDA op : op = "provider")) = 1
             /\ \E i \in (Len(before[1]) + 1)..Len(store) :
                   /\ store[i]._id = loc[p].inserted_id[1]
                   /\ store[i].title = req[p].title
                   /\ store[i].difficulty = req[p].target_difficulty
       /\ loc[1].inserted_id # loc[2].inserted_id

\* C16 witness: started on a collection that holds the beginner basis only,
\* two enhance requests for the intermediate tier have both ended with a
\* document of their own, and the collection holds both
C16_Witness ==
    /\ \A p \in Procs :
          /\ HasInserted(p)
          /\ pc[p] = "done"
          /\ req[p].target_difficulty = "intermediate"
          /\ Len(before[p]) = 1
          /\ before[p][1].difficulty = "beginner"
          /\ out[p].kind = "returned"
          /\ out[p].value # None
          /\ out[p].value[1]._id = ObjectIdToStr(loc[p].inserted_id[1])
    /\ Cardinality(AtTier(store, req[1].title, "intermediate")) = 2
    /\ store[1] = before[1][1]

\* how often the request in slot p has issued the call named op
Calls(p, op) == Len(SelectSeq(trace[p], LAMBDA c : c = op))

\* C17: with two requests interleaved in any way, an enhance request calls
\* the provider at most once and inserts at most once, and only after the
\* provider call; after a reply that cannot be used it has ended in failure
\* with that one provider call as its last call; and a request that ended
\* in failure has inserted nothing.
C17_AtMostOneProviderCall ==
    \A p \in Procs :
        req[p].op = "enhance"
        => /\ Calls(p, "provider") <= 1
           /\ Calls(p, "insert_one") <= Calls(p, "provider")
           /\ (loc[p].inserted_id # None) = (Calls(p, "insert_one") = 1)
           /\ (loc[p].reply # None /\ ~ReplyUsable(loc[p].reply[1]))
                 => /\ pc[p] = "done"
                    /\ out[p].kind = "raised"
                    /\ Calls(p, "provider") = 1
                    /\ trace[p][Len(trace[p])] = "provider"
           /\ out[p].kind \in {"raised", "rejected"}
                 => /\ Calls(p, "insert_one") = 0
                    /\ loc[p].inserted_id = None

\* C17 witness: an enhance request has failed after one provider call that
\* raised, while the other request was still in flight
C17_Witness ==
    \E p \in Procs : \E q \in Procs :
        /\ req[p].op = "enhance"
        /\ out[p].kind = "raised"
        /\ loc[p].reply # None
        /\ loc[p].reply[1].kind = "transport_error"
        /\ Calls(p, "provider") = 1
        /\ pc[q] \notin {"idle", "done"}

\* C18 (as claimed): an enhance call without current_difficulty whose first
\* lookup missed looks the basis up at the tier below the target, and ends
\* with a returned project or with a ResourceNotFoundException, whatever
\* the target.
C18_BasisDerivedOrTypedError ==
    \A p \in Procs :
        (/\ EnhanceEnded(p)
         /\ req[p].current_difficulty = None)
        => /\ \/ out[p].kind = "returned"
              \/ /\ out[p].kind = "raised"
                 /\ out[p].exc[1].type = "ResourceNotFoundException"
           /\ loc[p].enhanced_project = None
                 => loc[p].current_difficulty = BasisTier(req[p])

\* the route request in slot p ended with an exception that is none of the
\* HTTPException classes, so general_exception_handler answered it
UntypedFault(p) ==
    /\ out[p].kind = "raised"
    /\ req[p].layer = "route"
    /\ out[p].exc[1].type \notin
          {"ResourceNotFoundException", "InvalidIDException", "HTTPException"}

\* C19 (as claimed): two route requests that ended with untyped faults got
\* the same response, 500 with the generic message, whatever the texts of
\* their exceptions.
C19_UntypedFaultsLookAlike ==
    \A p \in Procs : \A q \in Procs :
        (UntypedFault(p) /\ UntypedFault(q))
        => /\ out[p].resp[1].status_code = 500
           /\ out[p].resp[1].message = <<"An unexpected error occurred">>
           /\ out[p].resp = out[q].resp

\* C20 (as claimed): of two authorised delete requests for the same
\* identifier, which the collection held when both arrived, one has
\* returned {id} and the other has failed with ResourceNotFound once both
\* have ended.
C20_ConcurrentDeleteOneSucceeds ==
    (/\ \A p \in Procs : DeleteAuthorised(p) /\ pc[p] = "done"
     /\ req[1].id = req[2].id
     /\ req[1].id.words = <<>>
     /\ req[1].id.hex \in Ids(before[1])
     /\ before[2] = before[1])
    => \E p \in Procs : \E q \in Procs \ {p} :
          /\ out[p].kind = "returned"
          /\ FailedNotFound(q, "Project")

\* C21 (as claimed): with a delete request interleaved in any way, a
\* generate request ends with the projection of a document of the requested
\* project_type and difficulty or with ResourceNotFound for "Projects", and
\* in no other way.
C21_GenerateEndsDocumented ==
    \A p \in Procs :
        GenerateEnded(p)
        => \/ /\ out[p].kind = "returned"
              /\ out[p].value # None
              /\ out[p].value[1].project_type = req[p].project_type
              /\ out[p].value[1].difficulty = req[p].difficulty
           \/ FailedNotFound(p, "Projects")

\* positions of the documents of coll that the re-check is said to accept
\* for the basis projection b: same title and project_type, difficulty =
\* target, and a tech_stack entry that is also one of the basis
SharingStack(coll, b, target) ==
    {i \in 1..Len(coll) :
        /\ coll[i].title = b.title
        /\ coll[i].project_type = b.project_type
        /\ coll[i].difficulty = target
        /\ Range(coll[i].tech_stack) \cap Range(b.tech_stack) # {}}

\* the step in which the request in slot p gets the answer of the re-check:
\* it returns the first document that shares a tech_stack entry, without a
\* provider call or an insert, and goes on to generate when there is none
RecheckAsClaimed(p) ==
    (pc[p] = "enhance_check" /\ pc'[p] # "enhance_check")
    => LET m == SharingStack(store, loc[p].current_project[1],
                             req[p].target_difficulty)
       IN /\ store' = store
          /\ IF m # {}
             THEN /\ pc'[p] = "done"
                  /\ out'[p].kind = "returned"
                  /\ out'[p].value = Some(project_helper(store[Min(m)]))
                  /\ Calls(p, "provider") = 0
                  /\ trace'[p] = Append(trace[p], "find_one")
             ELSE /\ pc'[p] = "enhance_generate"
                  /\ out'[p].kind = "pending"

\* the step that follows a re-check without a hit: the provider is called,
\* and a reply that can be used is inserted as a further document
ProceedsToProvider(p) ==
    (pc[p] = "enhance_generate" /\ pc'[p] # "enhance_generate")
    => /\ Calls(p, "provider") = 0
       /\ SelectSeq(trace'[p], LAMBDA c : c = "provider") = <<"provider">>
       /\ ReplyUsable(loc'[p].reply[1])
             => /\ Len(store') = Len(store) + 1
                /\ SubSeq(store', 1, Len(store)) = store
                /\ store'[Len(store')].difficulty = req[p].target_difficulty

\* C22 (as claimed): with two requests interleaved in any way, the re-check
\* of an enhance request returns a document of the basis's title and
\* project_type at the target tier that shares a tech_stack entry with the
\* basis, if there is one at that moment, with no provider call and no
\* insert; otherwise the request goes on to the provider call and a usable
\* reply is inserted as a further document.
C22_RecheckBeforeGenerating ==
    [][\A p \in Procs : RecheckAsClaimed(p) /\ ProceedsToProvider(p)]_vars

\* the re-check alone, as C22 describes it
RecheckHolds == [][\A p \in Procs : RecheckAsClaimed(p)]_vars

\* the re-check of an enhance request has returned a document that the
\* other request inserted after the first lookup had missed
RecheckHit ==
    \E p \in Procs :
        /\ req[p].op = "enhance"
        /\ out[p].kind = "returned"
        /\ trace[p] = <<"find_one", "find_one", "find_one">>
        /\ store # before[p]

\* the re-check has passed over a document of the other request that shares
\* no tech_stack entry with the basis, and a second one has been inserted
RecheckMissNoSharedStack ==
    \E p \in Procs :
        /\ HasInserted(p)
        /\ Len(store) = Len(before[p]) + 2
        /\ loc[p].inserted_id = Some(store[Len(store)]._id)
        /\ store[Len(store) - 1].project_type = store[Len(store)].project_type
        /\ loc[p].current_project[1].tech_stack # <<>>

\* the request in slot p was answered by http_exception_handler with status
DeniedWith(p, status, detail) ==
    /\ pc[p] = "done"
    /\ out[p].kind = "raised"
    /\ out[p].exc[1].type = "HTTPException"
    /\ out[p].resp[1].status_code = status
    /\ out[p].resp[1].error = "HTTP_ERROR"
    /\ out[p].resp[1].message = detail
    /\ trace[p] = <<>>
    /\ store = before[p]

\* C23: with requests served one after the other, a create or delete
\* request without the X-API-Key header is answered 401 and one with
\* another key than the configured one 403, both without any store call
\* and with the collection as it was; only a delete request with the valid
\* key has issued a writing call; and no generate or enhance request, which
\* carry no key, is answered 401 or 403.
C23_WritesNeedApiKey ==
    \A p \in Procs :
        /\ req[p].op \in {"create", "delete"}
              => /\ req[p].key = "none"
                       => DeniedWith(p, 401, <<"API Key header not found">>)
                 /\ req[p].key = "wrong"
                       => DeniedWith(p, 403, <<"Invalid API Key">>)
                 /\ HasWritten(p) => req[p].key = "valid"
        /\ (req[p].op \in {"generate", "enhance"} /\ out[p].resp # None)
              => /\ req[p].key = "none"
                 /\ out[p].resp[1].status_code \notin {401, 403}

\* C23 witness: a delete request with a wrong key for a document that the
\* collection holds was answered 403, and the document is still there
C23_Witness ==
    \E p \in Procs :
        /\ req[p].op = "delete"
        /\ req[p].key = "wrong"
        /\ DeniedWith(p, 403, <<"Invalid API Key">>)
        /\ StrToObjectId(req[p].id) \in Ids(store)

\* C23 witness, enhance: an enhance request without a key has inserted a
\* document
C23_WitnessNoKeyNeeded ==
    \E p \in Procs :
        /\ HasInserted(p)
        /\ req[p].key = "none"
        /\ out[p].kind = "returned"


\* the configuration is a production one with no ALLOWED_ORIGINS
ProductionUnconfigured ==
    /\ Lower(cors.environment) \in {"prod", "production"}
    /\ cors.origins_str = <<>>

\* the list add_cors_middleware built from the configuration
ConfiguredList == add_cors_middleware(cors.environment, cors.origins_str)

\* the response echoes the Origin header of a request that carried one
EchoesOrigin ==
    /\ cors.allow_origin # None
    /\ cors.origin # <<>>
    /\ cors.allow_origin[1] = cors.origin

\* C24: in a production environment with no ALLOWED_ORIGINS configured no
\* response carries the request's Origin in Access-Control-Allow-Origin, and
\* with a non-empty allow-list the header echoes the request's Origin only
\* when that origin is in the list.
C24_CorsAllowsOnlyListed ==
    /\ ProductionUnconfigured => ~EchoesOrigin
    /\ (ConfiguredList # <<>> /\ EchoesOrigin)
          => cors.origin \in Range(ConfiguredList)

\* the part of C24 that the code keeps: a list without "*" is respected
C24_ListWithoutWildcard ==
    (ConfiguredList # <<>> /\ <<"*">> \notin Range(ConfiguredList) /\ EchoesOrigin)
        => cors.origin \in Range(ConfiguredList)

\* an unlisted origin was answered with the first listed origin instead
C24_WitnessListed ==
    /\ ConfiguredList # <<>>
    /\ <<"*">> \notin Range(ConfiguredList)
    /\ cors.origin = <<"https://evil.example">>
    /\ cors.allow_origin = Some(ConfiguredList[1])

\* production without ALLOWED_ORIGINS echoed a foreign origin
C24_ProductionEchoes ==
    ~(ProductionUnconfigured /\ EchoesOrigin /\ cors.origin = <<"https://evil.example">>)

====
